---- MODULE Spec2Model ----
(***************************************************************************)
(* A model of gitcommit.py: the pipeline                                   *)
(*   load_config -> get_git_diff -> check token count -> send request ->   *)
(*   process_response -> add_prefix_to_suggestions -> prompt -> commit.    *)
(* Texts (response content, lines, suggestions, branch names, commit       *)
(* messages) are sequences of one-character strings, so that splitting,    *)
(* stripping and the regular-expression substitutions are computed.        *)
(***************************************************************************)
EXTENDS Integers, Sequences, FiniteSets

VARIABLES
    pc,            \* the next call main will make
    configFile,    \* the dict stored in config.json
    fileWrites,    \* number of times config.json was opened for writing
    config,        \* the dict load_config returned (the empty dict before)
    entered,       \* the keys whose value the user typed in load_config
    branch,        \* what `git rev-parse --abbrev-ref HEAD` answers
    diff,          \* get_git_diff's result
    tokenCount,    \* count_tokens' result (0: not counted yet)
    proceed,       \* the answer to the confirmation prompt
    requestSent,   \* requests.post was invoked
    httpResult,    \* how the request ended
    response,      \* send_request_to_openai's result
    suggestions,   \* the suggestion list (None or a list)
    selected,      \* index of the entry the user picked in the list prompt
    customAsked,   \* create_custom_commit_message asked for free-form input
    commitMessage, \* the message prompt_for_commit_message returned
    commits,       \* the messages passed to `git commit -m`, in order
    steps,         \* the pipeline steps that were entered, in order
    outcome        \* how the run ended

vars == <<pc, configFile, fileWrites, config, entered, branch, diff, tokenCount,
          proceed, requestSent, httpResult, response, suggestions, selected,
          customAsked, commitMessage, commits, steps, outcome>>

(***************************************************************************)
(* Bounds of the model.                                                    *)
(***************************************************************************)
MaxMissing == 1      \* keys absent from config.json
MaxTokens == 3       \* largest token count tiktoken reports
LimitValue == 2      \* the MAX_TOKEN_COUNT stored in config.json
MaxLines == 2        \* lines after the first line of a sampled response
MaxContentLen == 6   \* characters of an exhaustively enumerated response

(***************************************************************************)
(* Module constants of gitcommit.py (lines 11-20).                         *)
(***************************************************************************)
MODEL_NAME == "MODEL_NAME"
OPENAI_API_KEY == "OPENAI_API_KEY"
TASK_PREFIX == "TASK_PREFIX"
OPENAI_API_URL == "OPENAI_API_URL"
MAX_TOKEN_COUNT == "MAX_TOKEN_COUNT"
TEMPERATURE == "TEMPERATURE"
GIT_COMMAND == "GIT_COMMAND"
MESSAGE_TEMPLATE == "MESSAGE_TEMPLATE"
YOUR_TOKEN_KEY == "YOUR_TOKEN_KEY"
YOUR_TASK_PREFIX == "YOUR_TASK_PREFIX"

ConfigKeys == {MODEL_NAME, OPENAI_API_KEY, TASK_PREFIX, OPENAI_API_URL,
               MAX_TOKEN_COUNT, TEMPERATURE, GIT_COMMAND, MESSAGE_TEMPLATE}

(***************************************************************************)
(* Text primitives.                                                        *)
(***************************************************************************)
Whitespace == {" ", "\t"}
Quotes == {"'", "\""}
Digits == {"0", "1", "2", "3", "4", "5", "6", "7", "8", "9"}

RECURSIVE LStrip(_)
LStrip(s) == IF s # <<>> /\ Head(s) \in Whitespace THEN LStrip(Tail(s)) ELSE s

RECURSIVE RStrip(_)
RStrip(s) ==
    IF s # <<>> /\ s[Len(s)] \in Whitespace
    THEN RStrip(SubSeq(s, 1, Len(s) - 1))
    ELSE s

\* str.strip()
strip(s) == RStrip(LStrip(s))

\* str.startswith(p)
startswith(s, p) == Len(s) >= Len(p) /\ SubSeq(s, 1, Len(p)) = p

\* index of the first occurrence of the text sep in s, 0 when there is none
Find(s, sep) ==
    LET hits == {i \in 1..(Len(s) - Len(sep) + 1) : SubSeq(s, i, i + Len(sep) - 1) = sep}
    IN IF hits = {} THEN 0 ELSE CHOOSE i \in hits : \A j \in hits : i <= j

\* str.split(sep)
RECURSIVE split(_, _)
split(s, sep) ==
    LET i == Find(s, sep)
    IN IF i = 0
       THEN <<s>>
       ELSE <<SubSeq(s, 1, i - 1)>> \o split(SubSeq(s, i + Len(sep), Len(s)), sep)

\* number of leading characters of s that lie in the class cls
RECURSIVE Run(_, _)
Run(s, cls) == IF s # <<>> /\ Head(s) \in cls THEN 1 + Run(Tail(s), cls) ELSE 0

\* length of the match of ^(\d+\.|-|\*) at the start of s, 0 when none
MarkerLen(s) ==
    LET d == Run(s, Digits)
    IN IF d > 0 /\ Len(s) > d /\ s[d + 1] = "." THEN d + 1
       ELSE IF s # <<>> /\ Head(s) \in {"-", "*"} THEN 1
       ELSE 0

\* re.sub(r"^(\d+\.|-|\*)\s+", "", s)
SubMarker(s) ==
    LET m == MarkerLen(s)
        rest == SubSeq(s, m + 1, Len(s))
    IN IF m > 0 /\ Run(rest, Whitespace) > 0 THEN LStrip(rest) ELSE s

\* re.sub(r"^['\"]", "", s)
SubLeadingQuote(s) == IF s # <<>> /\ Head(s) \in Quotes THEN Tail(s) ELSE s

\* re.sub(r"['\"]$", "", s)
SubTrailingQuote(s) ==
    IF s # <<>> /\ s[Len(s)] \in Quotes THEN SubSeq(s, 1, Len(s) - 1) ELSE s

\* re.sub(r"['\"]:", ":", s)
RECURSIVE SubQuoteColon(_)
SubQuoteColon(s) ==
    IF Len(s) < 2 THEN s
    ELSE IF s[1] \in Quotes /\ s[2] = ":"
         THEN <<":">> \o SubQuoteColon(SubSeq(s, 3, Len(s)))
         ELSE <<s[1]>> \o SubQuoteColon(Tail(s))

\* re.sub(r":['\"]", ":", s)
RECURSIVE SubColonQuote(_)
SubColonQuote(s) ==
    IF Len(s) < 2 THEN s
    ELSE IF s[1] = ":" /\ s[2] \in Quotes
         THEN <<":">> \o SubColonQuote(SubSeq(s, 3, Len(s)))
         ELSE <<s[1]>> \o SubColonQuote(Tail(s))

\* re.sub(r"\\n", "", s): removes every backslash followed by the letter n
RECURSIVE SubEscapedNewline(_)
SubEscapedNewline(s) ==
    IF Len(s) < 2 THEN s
    ELSE IF s[1] = "\\" /\ s[2] = "n"
         THEN SubEscapedNewline(SubSeq(s, 3, Len(s)))
         ELSE <<s[1]>> \o SubEscapedNewline(Tail(s))

(***************************************************************************)
(* The response normalizer.                                                *)
(***************************************************************************)
normalize_message_filter(message) ==
    strip(SubEscapedNewline(SubColonQuote(SubQuoteColon(
        SubTrailingQuote(SubLeadingQuote(SubMarker(strip(message))))))))

\* the lines normalize_messages looks at: response.split('\n')[1:]
MessageLinesKeepFirst(content) == split(content, <<"\n">>)
MessageLines(content) == Tail(split(content, <<"\n">>))

\* the `if len(message) > 1` of the list comprehension
KeepsLine(message) == Len(message) > 1

RECURSIVE NormalizeAll(_)
NormalizeAll(lines) ==
    IF lines = <<>> THEN <<>>
    ELSE (IF KeepsLine(Head(lines))
          THEN <<normalize_message_filter(Head(lines))>>
          ELSE <<>>) \o NormalizeAll(Tail(lines))

normalize_messages(content) == NormalizeAll(MessageLines(content))

(***************************************************************************)
(* The branch-based prefixer.                                              *)
(***************************************************************************)
FEATURE_PREFIX == <<"f", "e", "a", "t", "u", "r", "e", "/", "I", "O", "S", "-">>

\* a branch name that git answered, or None when rev-parse failed
NoBranch == [ok |-> FALSE, name |-> <<>>]
Named(n) == [ok |-> TRUE, name |-> n]

\* `branch_name is not None and branch_name.startswith('feature/IOS-')`
MatchesConvention(b) == b.ok /\ startswith(b.name, FEATURE_PREFIX)

\* branch_name.split('--')[0].split('/')[-1]
TaskIdFirstPart(name) == Head(split(Head(split(name, <<"-", "-">>)), <<"/">>))
TaskId(name) ==
    LET parts == split(Head(split(name, <<"-", "-">>)), <<"/">>)
    IN parts[Len(parts)]

\* get_prefix_name
get_prefix_name(b) ==
    IF MatchesConvention(b) THEN TaskId(b.name) \o <<":", " ">> ELSE <<>>

RECURSIVE PrefixNonEmpty(_, _)
PrefixNonEmpty(prefix, list) ==
    IF list = <<>> THEN <<>>
    ELSE (IF strip(Head(list)) # <<>>
          THEN <<prefix \o strip(Head(list))>>
          ELSE <<>>) \o PrefixNonEmpty(prefix, Tail(list))

\* what add_prefix_to_suggestions returns: the list is rebuilt only on a
\* matching branch
PrefixedSuggestions(list, b) ==
    IF MatchesConvention(b)
    THEN PrefixNonEmpty(TaskId(b.name) \o <<":", " ">>, list)
    ELSE list

(***************************************************************************)
(* Values the environment supplies.                                        *)
(***************************************************************************)
BranchMain == <<"m", "a", "i", "n">>
BranchTask == <<"f", "e", "a", "t", "u", "r", "e", "/", "I", "O", "S", "-", "1", "2", "-", "-", "d", "e", "s", "c">>
BranchNoDesc == <<"f", "e", "a", "t", "u", "r", "e", "/", "I", "O", "S", "-", "7">>
BranchNested == <<"f", "e", "a", "t", "u", "r", "e", "/", "I", "O", "S", "-", "1", "/", "s", "u", "b", "-", "-", "x">>
BranchSlashDesc == <<"f", "e", "a", "t", "u", "r", "e", "/", "I", "O", "S", "-", "3", "-", "-", "a", "/", "b">>
BranchLower == <<"f", "e", "a", "t", "u", "r", "e", "/", "i", "o", "s", "-", "1", "-", "-", "x">>

Branches == {NoBranch} \cup {Named(n) : n \in {BranchMain, BranchTask, BranchNoDesc,
                 BranchNested, BranchSlashDesc, BranchLower}}

\* the entry prompt_for_commit_message appends to the choices
ENTER_OWN == <<"E", "n", "t", "e", "r", " ", "y", "o", "u", "r", " ", "o", "w", "n", " ", "c", "o", "m", "m", "i", "t", " ", "m", "e", "s", "s", "a", "g", "e">>

LineHeader == <<"S", "u", "g", "g", "e", "s", "t", "i", "o", "n", "s", ":">>
LineNumbered == <<"1", ".", " ", "\"", "F", "i", "x", " ", "b", "u", "g", "\"">>
LineDashed == <<"-", " ", "'", "f", "e", "a", "t", ":", " ", "a", "d", "d", "'">>
LineQuotesOnly == <<"\"", "\"">>
LineOneChar == <<"x">>
LineEscaped == <<"*", " ", "f", "i", "x", ":", "\"", "a", "\"", "\\", "n">>

SampleLines == {LineNumbered, LineDashed, LineQuotesOnly, ENTER_OWN, LineOneChar,
                LineEscaped}

\* '\n'.join(lines)
RECURSIVE join(_)
join(lines) ==
    IF Len(lines) = 1 THEN Head(lines)
    ELSE Head(lines) \o <<"\n">> \o join(Tail(lines))

\* response texts: a first line, then up to MaxLines sample lines
SampleContents ==
    {join(<<LineHeader>> \o ls) :
        ls \in UNION {[1..n -> SampleLines] : n \in 0..MaxLines}}

\* every text of at most MaxContentLen characters over a small alphabet
ContentChars == {"n", " ", "-", "\"", ":", "\\", "\n"}
AllContents == UNION {[1..n -> ContentChars] : n \in 0..MaxContentLen}

CustomInputs == {<<>>, <<"m", "s", "g">>}
ApiKeyInput == "sk-new"
TaskPrefixInput == "PFX"

FullConfig(apiKey, taskPrefix) ==
    [k \in ConfigKeys |->
        CASE k = OPENAI_API_KEY -> apiKey
          [] k = TASK_PREFIX -> taskPrefix
          [] k = MAX_TOKEN_COUNT -> LimitValue
          [] OTHER -> "set"]

Without(c, missing) == [k \in (DOMAIN c) \ missing |-> c[k]]

ConfigFiles ==
    {Without(FullConfig(a, p), m) :
        a \in {YOUR_TOKEN_KEY, "sk-old"},
        p \in {YOUR_TASK_PREFIX, "IOS"},
        m \in {s \in SUBSET ConfigKeys : Cardinality(s) <= MaxMissing}}

EmptyDict == [k \in {} |-> "set"]

(***************************************************************************)
(* Optional values (None or a value).                                      *)
(***************************************************************************)
NoDiff == [kind |-> "none", text |-> <<>>]
UnsetDiff == [kind |-> "unset", text |-> <<>>]
DiffText(t) == [kind |-> "text", text |-> t]

UnsetResponse == [kind |-> "unset", content |-> <<>>]
NoResponse == [kind |-> "none", content |-> <<>>]
BadResponse == [kind |-> "no_content", content |-> <<>>]
ContentResponse(c) == [kind |-> "content", content |-> c]

NoSuggestions == [none |-> TRUE, list |-> <<>>]
Suggestions(l) == [none |-> FALSE, list |-> l]

(***************************************************************************)
(* Init: main has parsed its arguments and is about to call load_config.   *)
(***************************************************************************)
Init ==
    /\ pc = "load_config"
    /\ configFile \in ConfigFiles
    /\ fileWrites = 0
    /\ config = EmptyDict
    /\ entered = {}
    /\ branch \in Branches
    /\ diff = UnsetDiff
    /\ tokenCount = 0
    /\ proceed = "unasked"
    /\ requestSent = FALSE
    /\ httpResult = "unsent"
    /\ response = UnsetResponse
    /\ suggestions = NoSuggestions
    /\ selected = 0
    /\ customAsked = FALSE
    /\ commitMessage = <<>>
    /\ commits = <<>>
    /\ steps = <<>>
    /\ outcome = "running"

\* an exception reaches main's `except Exception`, is logged and re-raised to
\* the handler of the __main__ block, which logs it; the run is over
Raise ==
    /\ pc' = "done"
    /\ outcome' = "exception"

Finish(how) ==
    /\ pc' = "done"
    /\ outcome' = how
(***************************************************************************)
(* The decisions of the pipeline.                                          *)
(***************************************************************************)
\* load_config: `config[OPENAI_API_KEY] == YOUR_TOKEN_KEY`
NeedsApiKey(c) == c[OPENAI_API_KEY] = YOUR_TOKEN_KEY

\* load_config: `config[TASK_PREFIX] == YOUR_TASK_PREFIX`
NeedsTaskPrefix(c) == c[TASK_PREFIX] = YOUR_TASK_PREFIX

\* load_config: json.dump sits inside the `if` of the task prefix
PersistsAlways(keyAsked, prefixAsked) == TRUE
PersistsConfig(keyAsked, prefixAsked) == prefixAsked

\* main: `if diff:`
DiffTruthyAlways(d) == TRUE
DiffTruthy(d) == d.kind = "text" /\ d.text # <<>>

\* prepare_request_data indexes these keys; count_tokens indexes MODEL_NAME
PrepareKeysLenient == {GIT_COMMAND, MESSAGE_TEMPLATE, MODEL_NAME}
PrepareKeys == {GIT_COMMAND, MESSAGE_TEMPLATE, MODEL_NAME, TEMPERATURE}

PrepareRaises(c) == \E k \in PrepareKeys : k \notin DOMAIN c

\* check_token_count_and_get_confirmation: `token_count > config[MAX_TOKEN_COUNT]`
ExceedsLimit(count, limit) == count > limit

\* check_token_count_and_get_confirmation: `answers.get('proceed')`
ProceedsUnlessNo(answer) == answer # "no"
Proceeds(answer) == answer = "yes"

\* process_diff: `if commit_suggestions:`
TruthyAlways(s) == TRUE
Truthy(s) == ~s.none /\ s.list # <<>>

\* prompt_for_commit_message: `commit_message == 'Enter your own commit message'`
IsEnterOwn(message) == message = ENTER_OWN

(***************************************************************************)
(* The steps of main.                                                      *)
(***************************************************************************)
load_config ==
    /\ pc = "load_config"
    /\ IF OPENAI_API_KEY \notin DOMAIN configFile
       THEN /\ Raise
            /\ UNCHANGED <<configFile, fileWrites, config, entered>>
       ELSE LET keyAsked == NeedsApiKey(configFile)
                c1 == IF keyAsked
                      THEN [configFile EXCEPT ![OPENAI_API_KEY] = ApiKeyInput]
                      ELSE configFile
                e1 == IF keyAsked THEN {OPENAI_API_KEY} ELSE {}
            IN IF TASK_PREFIX \notin DOMAIN c1
               THEN /\ Raise
                    /\ entered' = e1
                    /\ UNCHANGED <<configFile, fileWrites, config>>
               ELSE LET prefixAsked == NeedsTaskPrefix(c1)
                        c2 == IF prefixAsked
                              THEN [c1 EXCEPT ![TASK_PREFIX] = TaskPrefixInput]
                              ELSE c1
                        e2 == IF prefixAsked THEN e1 \cup {TASK_PREFIX} ELSE e1
                    IN /\ entered' = e2
                       /\ config' = c2
                       /\ IF PersistsConfig(keyAsked, prefixAsked)
                          THEN /\ configFile' = c2
                               /\ fileWrites' = fileWrites + 1
                          ELSE UNCHANGED <<configFile, fileWrites>>
                       /\ pc' = "get_git_diff"
                       /\ UNCHANGED outcome
    /\ UNCHANGED <<branch, diff, tokenCount, proceed, requestSent, httpResult,
                   response, suggestions, selected, customAsked, commitMessage,
                   commits, steps>>

DiffTexts == {<<>>, <<"d">>}

\* get_git_diff, then main's `if diff:`
get_git_diff ==
    /\ pc = "get_git_diff"
    /\ steps' = Append(steps, "get_git_diff")
    /\ IF GIT_COMMAND \notin DOMAIN config
       THEN Raise /\ UNCHANGED diff
       ELSE \/ Raise /\ UNCHANGED diff                  \* e.g. FileNotFoundError
            \/ \E d \in {NoDiff} \cup {DiffText(t) : t \in DiffTexts} :
                  /\ diff' = d
                  /\ IF DiffTruthy(d)
                     THEN pc' = "count_tokens" /\ UNCHANGED outcome
                     ELSE Finish("no_diff")
    /\ UNCHANGED <<configFile, fileWrites, config, entered, branch, tokenCount,
                   proceed, requestSent, httpResult, response, suggestions,
                   selected, customAsked, commitMessage, commits>>

\* check_token_count_and_get_confirmation up to its comparison
count_tokens ==
    /\ pc = "count_tokens"
    /\ steps' = Append(steps, "prepare_request_data")
    /\ IF PrepareRaises(config)
       THEN Raise /\ UNCHANGED tokenCount
       ELSE \/ Raise /\ UNCHANGED tokenCount            \* tiktoken knows no such model
            \/ \E n \in 1..MaxTokens :
                  IF MAX_TOKEN_COUNT \notin DOMAIN config
                  THEN Raise /\ UNCHANGED tokenCount
                  ELSE /\ tokenCount' = n
                       /\ pc' = IF ExceedsLimit(n, config[MAX_TOKEN_COUNT])
                                THEN "confirm"
                                ELSE "send_request_to_openai"
                       /\ UNCHANGED outcome
    /\ UNCHANGED <<configFile, fileWrites, config, entered, branch, diff, proceed,
                   requestSent, httpResult, response, suggestions, selected,
                   customAsked, commitMessage, commits>>

\* the confirmation prompt; on refusal get_commit_suggestions returns None and
\* process_diff tests it
confirm ==
    /\ pc = "confirm"
    /\ \E answer \in {"yes", "no", "none"} :
          /\ proceed' = answer
          /\ IF Proceeds(answer)
             THEN pc' = "send_request_to_openai" /\ UNCHANGED outcome
             ELSE IF Truthy(NoSuggestions)
                  THEN pc' = "prompt_for_commit_message" /\ UNCHANGED outcome
                  ELSE Finish("no_suggestions")
    /\ UNCHANGED <<configFile, fileWrites, config, entered, branch, diff,
                   tokenCount, requestSent, httpResult, response, suggestions,
                   selected, customAsked, commitMessage, commits, steps>>

\* prepare_request_data and send_request_to_openai, the response drawn from
\* Contents
SendRequest(Contents) ==
    /\ pc = "send_request_to_openai"
    /\ IF PrepareRaises(config)
       THEN /\ steps' = Append(steps, "prepare_request_data")
            /\ Raise
            /\ UNCHANGED <<requestSent, httpResult, response>>
       ELSE /\ steps' = steps \o <<"prepare_request_data", "send_request_to_openai">>
            /\ IF OPENAI_API_KEY \notin DOMAIN config
               THEN Raise /\ UNCHANGED <<requestSent, httpResult, response>>
               ELSE IF OPENAI_API_URL \notin DOMAIN config
               THEN /\ httpResult' = "key_error"
                    /\ response' = NoResponse
                    /\ pc' = "process_response"
                    /\ UNCHANGED <<requestSent, outcome>>
               ELSE /\ requestSent' = TRUE
                    /\ pc' = "process_response"
                    /\ UNCHANGED outcome
                    /\ \/ \E r \in {"exception", "http_error", "bad_json"} :
                             httpResult' = r /\ response' = NoResponse
                       \/ httpResult' = "ok" /\ response' = BadResponse
                       \/ \E c \in Contents :
                             httpResult' = "ok" /\ response' = ContentResponse(c)
    /\ UNCHANGED <<configFile, fileWrites, config, entered, branch, diff,
                   tokenCount, proceed, suggestions, selected, customAsked,
                   commitMessage, commits>>

send_request_to_openai == SendRequest(SampleContents)

process_response ==
    /\ pc = "process_response"
    /\ steps' = Append(steps, "process_response")
    /\ suggestions' = Suggestions(IF response.kind = "content"
                                  THEN normalize_messages(response.content)
                                  ELSE <<>>)
    /\ pc' = "add_prefix_to_suggestions"
    /\ UNCHANGED <<configFile, fileWrites, config, entered, branch, diff,
                   tokenCount, proceed, requestSent, httpResult, response,
                   selected, customAsked, commitMessage, commits, outcome>>

\* add_prefix_to_suggestions, then process_diff's `if commit_suggestions:`
add_prefix_to_suggestions ==
    /\ pc = "add_prefix_to_suggestions"
    /\ steps' = Append(steps, "add_prefix_to_suggestions")
    /\ LET s == Suggestions(PrefixedSuggestions(suggestions.list, branch))
       IN /\ suggestions' = s
          /\ IF Truthy(s)
             THEN pc' = "prompt_for_commit_message" /\ UNCHANGED outcome
             ELSE Finish("no_suggestions")
    /\ UNCHANGED <<configFile, fileWrites, config, entered, branch, diff,
                   tokenCount, proceed, requestSent, httpResult, response,
                   selected, customAsked, commitMessage, commits>>

\* prompt_for_commit_message up to the call of create_custom_commit_message;
\* picking entry 0 stands for leaving the prompt without an answer
prompt_for_commit_message ==
    /\ pc = "prompt_for_commit_message"
    /\ steps' = Append(steps, "prompt_for_commit_message")
    /\ IF suggestions.none
       THEN Raise /\ UNCHANGED <<suggestions, selected, commitMessage>>
       ELSE LET choices == Append(suggestions.list, ENTER_OWN)
            IN /\ suggestions' = Suggestions(choices)
               /\ \E i \in 0..Len(choices) :
                     IF i = 0
                     THEN Raise /\ UNCHANGED <<selected, commitMessage>>
                     ELSE /\ selected' = i
                          /\ UNCHANGED outcome
                          /\ IF IsEnterOwn(choices[i])
                             THEN /\ pc' = "create_custom_commit_message"
                                  /\ UNCHANGED commitMessage
                             ELSE /\ pc' = "make_commit"
                                  /\ commitMessage' = choices[i]
    /\ UNCHANGED <<configFile, fileWrites, config, entered, branch, diff,
                   tokenCount, proceed, requestSent, httpResult, response,
                   customAsked, commits>>

create_custom_commit_message ==
    /\ pc = "create_custom_commit_message"
    /\ customAsked' = TRUE
    /\ \E typed \in CustomInputs :
          commitMessage' = get_prefix_name(branch) \o typed
    /\ pc' = "make_commit"
    /\ UNCHANGED <<configFile, fileWrites, config, entered, branch, diff,
                   tokenCount, proceed, requestSent, httpResult, response,
                   suggestions, selected, commits, steps, outcome>>

make_commit ==
    /\ pc = "make_commit"
    /\ steps' = Append(steps, "make_commit")
    /\ commits' = Append(commits, commitMessage)
    /\ \/ \E how \in {"committed", "commit_failed"} : Finish(how)
       \/ Raise                                        \* e.g. FileNotFoundError
    /\ UNCHANGED <<configFile, fileWrites, config, entered, branch, diff,
                   tokenCount, proceed, requestSent, httpResult, response,
                   suggestions, selected, customAsked, commitMessage>>

Next ==
    \/ load_config
    \/ get_git_diff
    \/ count_tokens
    \/ confirm
    \/ send_request_to_openai
    \/ process_response
    \/ add_prefix_to_suggestions
    \/ prompt_for_commit_message
    \/ create_custom_commit_message
    \/ make_commit

Spec == Init /\ [][Next]_vars
(***************************************************************************)
(* The normalizer on every short response: the runs start where            *)
(* send_request_to_openai has just returned a response with content.       *)
(***************************************************************************)
InitNorm ==
    /\ pc = "process_response"
    /\ configFile = FullConfig("sk-old", "IOS")
    /\ fileWrites = 0
    /\ config = FullConfig("sk-old", "IOS")
    /\ entered = {}
    /\ branch = Named(BranchMain)
    /\ diff = DiffText(<<"d">>)
    /\ tokenCount = 1
    /\ proceed = "unasked"
    /\ requestSent = TRUE
    /\ httpResult = "ok"
    /\ response \in {ContentResponse(c) : c \in AllContents}
    /\ suggestions = NoSuggestions
    /\ selected = 0
    /\ customAsked = FALSE
    /\ commitMessage = <<>>
    /\ commits = <<>>
    /\ steps = <<"get_git_diff", "prepare_request_data", "prepare_request_data",
                 "send_request_to_openai">>
    /\ outcome = "running"

NextNorm == process_response

SpecNorm == InitNorm /\ [][NextNorm]_vars
(***************************************************************************)
(* Vocabulary of the properties, stated without the operators of the       *)
(* model's normalizer and prefixer.                                         *)
(***************************************************************************)
StepRank(s) ==
    CASE s = "get_git_diff" -> 1
      [] s = "prepare_request_data" -> 2
      [] s = "send_request_to_openai" -> 3
      [] s = "process_response" -> 4
      [] s = "add_prefix_to_suggestions" -> 5
      [] s = "prompt_for_commit_message" -> 6
      [] s = "make_commit" -> 7

Entered(s) == \E i \in 1..Len(steps) : steps[i] = s

\* positions that delimit the lines of a text: before it, its newlines, after it
Breaks(c) == {0} \cup {i \in 1..Len(c) : c[i] = "\n"} \cup {Len(c) + 1}

NumLines(c) == Cardinality(Breaks(c)) - 1

\* the k-th line of the text c, k in 1..NumLines(c)
LineNo(c, k) ==
    LET b == CHOOSE x \in Breaks(c) : Cardinality({y \in Breaks(c) : y < x}) = k
        a == CHOOSE x \in Breaks(c) : x < b /\ \A y \in Breaks(c) : y < b => y <= x
    IN SubSeq(c, a + 1, b - 1)

\* the numbers of the lines longer than one character, from line `from` on
LongLines(c, from) == {k \in from..NumLines(c) : Len(LineNo(c, k)) > 1}

QuoteCount(s) == Cardinality({i \in 1..Len(s) : s[i] \in Quotes})

HasEscapedNewline(s) == \E i \in 1..(Len(s) - 1) : s[i] = "\\" /\ s[i + 1] = "n"

QuoteAtAnEnd(s) == s # <<>> /\ (s[1] \in Quotes \/ s[Len(s)] \in Quotes)

SpaceAtAnEnd(s) == s # <<>> /\ (s[1] \in Whitespace \/ s[Len(s)] \in Whitespace)

\* the part of a branch name before its first "--"
BeforeDashes(name) ==
    LET cuts == {i \in 1..(Len(name) - 1) : name[i] = "-" /\ name[i + 1] = "-"}
    IN IF cuts = {} THEN name
       ELSE SubSeq(name, 1, (CHOOSE i \in cuts : \A j \in cuts : i <= j) - 1)

\* t is the text after the last "/" of head
IsLastSegment(t, head) ==
    /\ Len(t) <= Len(head)
    /\ t = SubSeq(head, Len(head) - Len(t) + 1, Len(head))
    /\ \A i \in 1..Len(t) : t[i] # "/"
    /\ Len(t) = Len(head) \/ head[Len(head) - Len(t)] = "/"

OnFeatureBranch ==
    /\ branch.ok
    /\ Len(branch.name) >= 12
    /\ SubSeq(branch.name, 1, 12) = FEATURE_PREFIX

HoldsPlaceholder(f) ==
    \/ OPENAI_API_KEY \in DOMAIN f /\ f[OPENAI_API_KEY] = YOUR_TOKEN_KEY
    \/ TASK_PREFIX \in DOMAIN f /\ f[TASK_PREFIX] = YOUR_TASK_PREFIX

MissingKeys == ConfigKeys \ DOMAIN configFile

PcRank ==
    CASE pc = "load_config" -> 0
      [] pc = "get_git_diff" -> 1
      [] pc = "count_tokens" -> 2
      [] pc = "confirm" -> 3
      [] pc = "send_request_to_openai" -> 4
      [] pc = "process_response" -> 5
      [] pc = "add_prefix_to_suggestions" -> 6
      [] pc = "prompt_for_commit_message" -> 7
      [] pc = "create_custom_commit_message" -> 8
      [] pc = "make_commit" -> 9
      [] pc = "done" -> 10

\* the step in which main first indexes the configuration with key k
FirstUse(k) ==
    CASE k \in {OPENAI_API_KEY, TASK_PREFIX} -> 0
      [] k = GIT_COMMAND -> 1
      [] k \in {MODEL_NAME, MESSAGE_TEMPLATE, TEMPERATURE, MAX_TOKEN_COUNT} -> 2
      [] k = OPENAI_API_URL -> 4

ErrorOutcomes == {"exception", "no_diff", "no_suggestions"}

(***************************************************************************)
(* C1: the steps of a run occur in the order obtain diff, build request,   *)
(* call API, parse response, prefix, prompt user, commit; a step is        *)
(* entered only after every earlier step was entered; git commit is not    *)
(* invoked before the user was prompted and answered, and the user is not  *)
(* prompted before the request was sent.                                   *)
(***************************************************************************)
C1_PipelineOrder ==
    /\ \A i, j \in 1..Len(steps) :
          i < j => StepRank(steps[i]) <= StepRank(steps[j])
    /\ \A i \in 1..Len(steps) :
          \A r \in 1..(StepRank(steps[i]) - 1) :
             \E j \in 1..(i - 1) : StepRank(steps[j]) = r
    /\ commits # <<>> => Entered("prompt_for_commit_message") /\ selected > 0
    /\ Entered("prompt_for_commit_message") \/ pc = "prompt_for_commit_message"
          => requestSent

C1_Witness ==
    /\ outcome = "committed"
    /\ steps = <<"get_git_diff", "prepare_request_data", "prepare_request_data",
                 "send_request_to_openai", "process_response",
                 "add_prefix_to_suggestions", "prompt_for_commit_message",
                 "make_commit">>

(***************************************************************************)
(* C2: the request is sent only if the token count is at most              *)
(* MAX_TOKEN_COUNT or the user answered yes; the confirmation prompt is    *)
(* shown only when the count exceeds MAX_TOKEN_COUNT; after a refusal or   *)
(* no answer the run is over with no request sent and no commit.           *)
(***************************************************************************)
C2_RequestNeedsConsent ==
    /\ requestSent =>
          /\ tokenCount >= 1
          /\ tokenCount <= config[MAX_TOKEN_COUNT] \/ proceed = "yes"
    /\ pc = "confirm" \/ proceed # "unasked" =>
          tokenCount > config[MAX_TOKEN_COUNT]
    /\ proceed \in {"no", "none"} =>
          /\ pc = "done"
          /\ ~requestSent
          /\ ~Entered("send_request_to_openai")
          /\ commits = <<>>

C2_Witness ==
    /\ proceed = "yes"
    /\ requestSent
    /\ tokenCount > config[MAX_TOKEN_COUNT]

(***************************************************************************)
(* C3: once load_config has returned, config.json holds every value the    *)
(* user typed in that run.                                                 *)
(***************************************************************************)
C3_EnteredValuesPersisted ==
    config # EmptyDict =>
        \A k \in entered : k \in DOMAIN configFile /\ configFile[k] = config[k]

(***************************************************************************)
(* C4: config.json is written only by load_config, and only when the file  *)
(* held a placeholder that user input replaced; no other step writes it.   *)
(***************************************************************************)
C4_FileWrittenOnlyForPlaceholder ==
    [][(configFile' # configFile \/ fileWrites' # fileWrites) =>
          /\ pc = "load_config"
          /\ HoldsPlaceholder(configFile)
          /\ entered' # {}]_vars

C4_Witness ==
    /\ outcome = "committed"
    /\ ~HoldsPlaceholder(configFile)
    /\ entered = {}
    /\ fileWrites = 0

(***************************************************************************)
(* C5: every message passed to git commit begins with "<task_id>: " when   *)
(* the branch name starts with feature/IOS- (task_id: the text after the   *)
(* last "/" of the part before the first "--"); otherwise it is the chosen *)
(* suggestion or the typed text with nothing added.                        *)
(***************************************************************************)
C5_CommitMessagePrefixed ==
    \A i \in 1..Len(commits) :
        LET m == commits[i]
        IN IF OnFeatureBranch
           THEN LET head == BeforeDashes(branch.name)
                IN \E n \in 0..Len(head) :
                      LET t == SubSeq(head, Len(head) - n + 1, Len(head))
                      IN /\ IsLastSegment(t, head)
                         /\ Len(m) >= Len(t) + 2
                         /\ SubSeq(m, 1, Len(t) + 2) = t \o <<":", " ">>
           ELSE IF customAsked
                THEN m \in CustomInputs
                ELSE /\ response.kind = "content"
                     /\ \E k \in LongLines(response.content, 2) :
                           m = normalize_message_filter(LineNo(response.content, k))

C5_Witness ==
    /\ commits # <<>>
    /\ branch = Named(BranchNested)
    /\ ~customAsked

C7_FailureStopsPipeline ==
    /\ diff.kind = "none" \/ (diff.kind = "text" /\ diff.text = <<>>) =>
          /\ ~requestSent
          /\ ~Entered("prepare_request_data")
          /\ ~Entered("prompt_for_commit_message")
          /\ pc \notin {"confirm", "prompt_for_commit_message"}
          /\ commits = <<>>
    /\ \/ httpResult \in {"exception", "http_error", "bad_json"}
       \/ response.kind = "no_content"
       \/ response.kind = "content" /\ LongLines(response.content, 2) = {}
       => /\ ~Entered("prompt_for_commit_message")
          /\ pc \notin {"prompt_for_commit_message", "create_custom_commit_message",
                        "make_commit"}
          /\ selected = 0
          /\ commits = <<>>

C7_Witness ==
    /\ httpResult = "http_error"
    /\ pc = "done"
    /\ outcome = "no_suggestions"

C9_ChoicesNonEmpty ==
    pc = "prompt_for_commit_message" /\ ~suggestions.none =>
        \A i \in 1..Len(suggestions.list) : suggestions.list[i] # <<>>

(***************************************************************************)
(* C10: when the user picks one of the suggestions of the API, free-form   *)
(* input is not requested and git commit is invoked exactly once, with     *)
(* that suggestion as its message.                                         *)
(***************************************************************************)
C10_SelectedSuggestionCommitted ==
    selected > 0 /\ selected < Len(suggestions.list) =>
        /\ pc # "create_custom_commit_message"
        /\ ~customAsked
        /\ pc = "done" => commits = <<suggestions.list[selected]>>

====
